---- MODULE Spec2Model ----
(***************************************************************************)
(* offvsix: src/offvsix/main.py.  A command line tool that resolves a      *)
(* publisher.extension identifier through the Marketplace query API and    *)
(* stores the VSIX package on disk, for one identifier or for every line  *)
(* of a list file.                                                         *)
(*                                                                         *)
(* Text is modelled as a sequence of chunks.  Text a user or a server     *)
(* controls has one character per chunk; fixed text of the program (the    *)
(* URL pieces, ".vsix", "extensions") is one chunk per literal.            *)
(***************************************************************************)
EXTENDS Integers, Sequences, FiniteSets, TLC

\* ------------------------------------------------------------------ bounds
\* longest EXTENSION argument given on the command line
MaxLen == 3
\* most lines of a --file list
MaxLines == 2

\* ------------------------------------------------------------- text (str)
\* Python's None, kept apart from the empty string ""
None == <<"None">>
Empty == <<>>
\* bool(x) of an optional string: None and "" are falsy
Truthy(s) == s # None /\ s # Empty
\* x or y
Or(x, y) == IF Truthy(x) THEN x ELSE y

Whitespace == {" ", "\n"}

RECURSIVE LStrip(_)
LStrip(s) == IF s # <<>> /\ Head(s) \in Whitespace THEN LStrip(Tail(s)) ELSE s

RECURSIVE RStrip(_)
RStrip(s) == IF s # <<>> /\ s[Len(s)] \in Whitespace THEN RStrip(SubSeq(s, 1, Len(s) - 1)) ELSE s

\* str.strip()
Strip(s) == RStrip(LStrip(s))

\* c in s
Contains(s, c) == \E i \in 1..Len(s) : s[i] = c

\* s.find(c), 1-based; only used when c is in s
Find(s, c) == CHOOSE i \in 1..Len(s) : s[i] = c /\ \A j \in 1..(i - 1) : s[j] # c

\* s.rfind(c): the split a right-to-left scan would make
RFind(s, c) == CHOOSE i \in 1..Len(s) : s[i] = c /\ \A j \in (i + 1)..Len(s) : s[j] # c

SplitLast(s) == <<SubSeq(s, 1, RFind(s, ".") - 1), SubSeq(s, RFind(s, ".") + 1, Len(s))>>

\* ext.split(".", 1), for ext containing "."
SplitFirst(s) == <<SubSeq(s, 1, Find(s, ".") - 1), SubSeq(s, Find(s, ".") + 1, Len(s))>>

\* os.path.join(a, b)
PathJoin(a, b) ==
    IF b # <<>> /\ Head(b) = "/" THEN b
    ELSE IF a = <<>> \/ a[Len(a)] = "/" THEN a \o b
    ELSE a \o <<"/">> \o b

\* f"{publisher}.{extension_name}-{version}.vsix"
VsixName(publisher, extension_name, version) ==
    publisher \o <<".">> \o extension_name \o <<"-">> \o version \o <<".vsix">>

DefaultDir == <<"extensions">>

ApiUrl == <<"https://marketplace.visualstudio.com/_apis/public/gallery/extensionquery">>

\* f"https://{publisher}.gallery.vsassets.io/.../{version}/assetbyname/..."
DownloadUrl(publisher, extension_name, version) ==
    <<"https://">> \o publisher
      \o <<".gallery.vsassets.io/_apis/public/gallery/publisher/">> \o publisher
      \o <<"/extension/">> \o extension_name \o <<"/">> \o version
      \o <<"/assetbyname/Microsoft.VisualStudio.Services.VSIXPackage">>

PostTimeout == 20
GetTimeout == 60
FilterType == 7
QueryFlags == 914
StatusOk == 200

\* ------------------------------------------------------------------- JSON
\* a decoded JSON value: null, a string, a list, or an object (dict)
JNull == [t |-> "null", v |-> <<>>]
JStr(s) == [t |-> "str", v |-> s]
JList(s) == [t |-> "list", v |-> s]
\* an object is a sequence of <<key, value>> pairs with distinct keys
JDict(pairs) == [t |-> "dict", v |-> pairs]

\* bool(j)
JTruthy(j) == j.t # "null" /\ j.v # <<>>

HasKey(j, key) == \E i \in 1..Len(j.v) : j.v[i][1] = key

\* the outcome of an expression: a value, or the exception it raised
Value(j) == [exc |-> "none", val |-> j]
Raised(e) == [exc |-> e, val |-> JNull]

\* j.get(key): only a dict has .get
PyGet(j, key) ==
    IF j.t # "dict" THEN Raised("AttributeError")
    ELSE IF HasKey(j, key)
         THEN Value(j.v[CHOOSE i \in 1..Len(j.v) : j.v[i][1] = key][2])
         ELSE Value(JNull)

\* j[0], for a truthy j: the keys of a decoded object are strings, never 0
PyIndex0(j) ==
    CASE j.t = "list" -> IF j.v = <<>> THEN Raised("IndexError") ELSE Value(j.v[1])
      [] j.t = "str" -> IF j.v = <<>> THEN Raised("IndexError") ELSE Value(JStr(<<j.v[1]>>))
      [] j.t = "dict" -> Raised("KeyError")
      [] OTHER -> Raised("TypeError")

\* (container.get(key) or [])
GetOrList(j, key) ==
    LET g == PyGet(j, key) IN
    IF g.exc # "none" THEN g
    ELSE IF JTruthy(g.val) THEN g ELSE Value(JList(<<>>))

\* an exit of the lookup that is no exception: a level is absent or empty
Absent == [exc |-> "absent", val |-> JNull]

\* x = (container.get(key) or []); if not x: <not found>; x[0]
Descend(j, key) ==
    LET g == GetOrList(j, key) IN
    IF g.exc # "none" THEN g
    ELSE IF ~JTruthy(g.val) THEN Absent ELSE PyIndex0(g.val)

\* results[0].extensions[0].versions[0].version, as lines 80-95 compute it:
\* a value, "absent", or the exception the expression raises
LookupVersion(data) ==
    LET a == Descend(data, "results") IN
    IF a.exc # "none" THEN a ELSE
    LET b == Descend(a.val, "extensions") IN
    IF b.exc # "none" THEN b ELSE
    LET c == Descend(b.val, "versions") IN
    IF c.exc # "none" THEN c ELSE
    LET d == PyGet(c.val, "version") IN
    IF d.exc # "none" THEN d
    ELSE IF ~JTruthy(d.val) THEN Absent ELSE d

\* except (AttributeError, IndexError, TypeError)
Caught == {"AttributeError", "IndexError", "TypeError"}

\* f"{version}": a string is inserted as it is, anything else by its repr
FormatValue(j) == IF j.t = "str" THEN j.v ELSE <<"repr">>

\* ----------------------------------------------------------------- inputs
Alphabet == {"a", ".", " "}
Strings(n) == UNION {[1..k -> Alphabet] : k \in 0..n}

\* the EXTENSION argument (optional) and --file
CommandLines ==
    {[extension |-> e, file |-> None] : e \in {None} \cup Strings(MaxLen)}
      \cup {[extension |-> e, file |-> <<"f">>] : e \in {None, <<"a", ".", "a">>}}

ProxyArgs == {None, <<"p">>}
VersionArgs == {None, Empty, <<"1">>}
DestinationArgs == {None, Empty, <<"d">>}

\* lines as readlines() returns them: blank, malformed, valid, valid with a
\* dotted name
LineSet ==
    {<<"\n">>, <<"a", "\n">>, <<" ", "a", ".", "a", "\n">>, <<"a", ".", "a", ".", "a", "\n">>}
FileTexts == UNION {[1..k -> LineSet] : k \in 0..MaxLines}

\* what the Marketplace may answer to the query, decoded
VersionEntry(j) == JDict(<< <<"versions", JList(<<j>>)>> >>)
ResultsOf(j) == JDict(<< <<"results", j>> >>)
ExtensionsOf(j) == ResultsOf(JList(<<JDict(<< <<"extensions", j>> >>)>>))
\* {"results": [{"extensions": [{"versions": [{"version": j}]}]}]}
Listing(j) == ExtensionsOf(JList(<<VersionEntry(JDict(<< <<"version", j>> >>))>>))
MetaBodies ==
    { JList(<<>>),
      JDict(<<>>),
      ResultsOf(JList(<<>>)),
      ResultsOf(JStr(<<"x">>)),
      ResultsOf(JDict(<< <<"k", JNull>> >>)),
      ExtensionsOf(JList(<<>>)),
      ExtensionsOf(JList(<<VersionEntry(JDict(<<>>))>>)),
      Listing(JNull),
      Listing(JStr(<<"2">>)) }

\* a body that is no JSON document
NotJson == [t |-> "invalid", v |-> <<>>]

NoResponse == [raised |-> FALSE, status |-> 0, body |-> JNull]
\* session.post(...): a requests.RequestException, or a response
PostOutcomes ==
    {[raised |-> TRUE, status |-> 0, body |-> JNull],
     [raised |-> FALSE, status |-> 500, body |-> NotJson],
     [raised |-> FALSE, status |-> 500, body |-> Listing(JStr(<<"2">>))],
     [raised |-> FALSE, status |-> StatusOk, body |-> NotJson]}
      \cup {[raised |-> FALSE, status |-> StatusOk, body |-> b] : b \in MetaBodies}

Contents == {<<"b1">>, <<"b2">>}
\* session.get(...): a requests.RequestException, or a response
GetOutcomes ==
    {[raised |-> TRUE, status |-> 0, body |-> Empty],
     [raised |-> FALSE, status |-> 404, body |-> <<"b1">>]}
      \cup {[raised |-> FALSE, status |-> StatusOk, body |-> b] : b \in Contents}

\* ------------------------------------------------------------------ state
VARIABLES
    pc,                \* where the process is
    args,              \* the parameters of cli()
    extensions,        \* download_plugins_from_file: the lines read
    idx,               \* download_plugins_from_file: the next line of the loop
    downloader,        \* the fields of the VSCodeExtensionDownloader in use
    publisher, extension_name,                  \* locals of download()
    response, extension_data, version,          \* locals of _download_vscode_extension
    file_path, download_response,
    dirs, files,       \* the file system: directories, and path -> content
    printed,           \* what was printed since the downloader in use was built
    requests,          \* the requests the session of this download() has sent
    result,            \* the return statement download() left by, "" while it runs
    ran,               \* the identifiers download() was called for, in call order
    dirs0, files0      \* the file system when download() was called

vars == <<pc, args, extensions, idx, downloader, publisher, extension_name,
          response, extension_data, version, file_path, download_response,
          dirs, files, printed, requests, result, ran, dirs0, files0>>

locals == <<publisher, extension_name, response, extension_data, version,
            file_path, download_response>>
fs == <<dirs, files>>
snapshot == <<dirs0, files0>>

NoArgs ==
    [extension |-> None, file |-> None, proxy |-> None, version |-> None,
     destination |-> None, no_cache |-> FALSE, no_print |-> FALSE]

\* VSCodeExtensionDownloader.__init__
NewDownloader(extension, proxy, ver, destination, no_cache, print) ==
    [extension |-> extension, proxy |-> proxy, version |-> ver,
     destination |-> destination, no_cache |-> no_cache, print |-> print]

NoDownloader == NewDownloader(None, None, None, None, FALSE, FALSE)

\* a _print with the switch the wrong way round
SelfPrintInverted(msgs) == IF ~downloader.print THEN printed \o msgs ELSE printed

\* self._print(msg), for each msg of msgs in turn
SelfPrint(msgs) == IF downloader.print THEN printed \o msgs ELSE printed

NoFiles == [p \in {} |-> Empty]
Exists(path) == path \in DOMAIN files
\* with open(path, "wb") as f: f.write(content)
WriteFile(path, content) ==
    [p \in DOMAIN files \cup {path} |-> IF p = path THEN content ELSE files[p]]

Init ==
    /\ pc = "cli"
    /\ args = NoArgs
    /\ extensions = <<>>
    /\ idx = 1
    /\ downloader = NoDownloader
    /\ publisher = None /\ extension_name = None
    /\ response = NoResponse /\ extension_data = JNull /\ version = None
    /\ file_path = None /\ download_response = NoResponse
    /\ dirs = {} /\ files = NoFiles
    /\ printed = <<>>
    /\ requests = <<>>
    /\ result = ""
    /\ ran = <<>>
    /\ dirs0 = {} /\ files0 = NoFiles

\* ---------------------------------------------------------------- actions
\* @click.option('--no-print', is_flag=True, default=True): the value without
\* the flag; with the flag, a boolean flag takes the opposite of its default
NoPrintDefault == TRUE
NoPrintValue(flag_given) == IF flag_given THEN ~NoPrintDefault ELSE NoPrintDefault

\* where control goes when downloader.download() returns
Return == IF Truthy(args.file) THEN "loop" ELSE "done"

\* cli(extension, file, proxy, version, destination, no_cache, no_print)
cli ==
    /\ pc = "cli"
    /\ \E cl \in CommandLines, proxy \in ProxyArgs, ver \in VersionArgs,
          destination \in DestinationArgs, no_cache \in BOOLEAN, flag_given \in BOOLEAN :
          LET no_print == NoPrintValue(flag_given) IN
          /\ args' = [extension |-> cl.extension, file |-> cl.file, proxy |-> proxy,
                      version |-> ver, destination |-> destination,
                      no_cache |-> no_cache, no_print |-> no_print]
          /\ IF Truthy(cl.file)
             THEN /\ pc' = "read_file"
                  /\ UNCHANGED <<downloader, printed>>
             ELSE IF Truthy(cl.extension)
             THEN /\ downloader' = NewDownloader(cl.extension, proxy, ver, destination,
                                                 no_cache, no_print)
                  /\ pc' = "download"
                  /\ UNCHANGED printed
             ELSE /\ printed' = Append(printed, "usage")
                  /\ pc' = "done"
                  /\ UNCHANGED downloader
    /\ UNCHANGED <<extensions, idx, locals, fs, requests, result, ran, snapshot>>

\* download_plugins_from_file, lines 133-137: the file is missing, or is read
download_plugins_from_file ==
    /\ pc = "read_file"
    /\ \/ /\ printed' = Append(printed, "file_not_found")
          /\ pc' = "done"
          /\ UNCHANGED extensions
       \/ /\ \E text \in FileTexts : extensions' = text
          /\ pc' = "loop"
          /\ UNCHANGED printed
    /\ UNCHANGED <<args, idx, downloader, locals, fs, requests, result, ran, snapshot>>

\* download_plugins_from_file, lines 138-141: one turn of the for loop up to the
\* call of downloader.download(), or the end of the loop
next_plugin ==
    /\ pc = "loop"
    /\ IF idx > Len(extensions)
       THEN /\ pc' = "done"
            /\ UNCHANGED <<idx, downloader, printed>>
       ELSE LET extension == Strip(extensions[idx]) IN
            /\ idx' = idx + 1
            /\ IF extension # Empty
               THEN /\ downloader' = NewDownloader(extension, args.proxy, args.version,
                                                   args.destination, args.no_cache,
                                                   args.no_print)
                    /\ printed' = <<>>
                    /\ pc' = "download"
               ELSE /\ pc' = "loop"
                    /\ UNCHANGED <<downloader, printed>>
    /\ UNCHANGED <<args, extensions, locals, fs, requests, result, ran, snapshot>>

\* a check that looks for the "." alone
ValidIdentifierDotOnly(ext) == Contains(ext, ".")

\* the identifier check of download(), lines 22-29
ValidIdentifier(ext) ==
    /\ Contains(ext, ".")
    /\ SplitFirst(ext)[1] # Empty
    /\ SplitFirst(ext)[2] # Empty

\* VSCodeExtensionDownloader.download, lines 21-33
download ==
    /\ pc = "download"
    /\ LET ext == Strip(Or(downloader.extension, Empty)) IN
       /\ ran' = Append(ran, ext)
       /\ IF ValidIdentifier(ext)
          THEN /\ publisher' = SplitFirst(ext)[1]
               /\ extension_name' = SplitFirst(ext)[2]
               /\ printed' = SelfPrint(<<"rule", "downloading", "rule">>)
               /\ result' = ""
               /\ pc' = "query"
          ELSE /\ publisher' = None /\ extension_name' = None
               /\ printed' = SelfPrint(<<"invalid">>)
               /\ result' = "invalid"
               /\ pc' = Return
    /\ response' = NoResponse /\ extension_data' = JNull /\ version' = None
    /\ file_path' = None /\ download_response' = NoResponse
    /\ requests' = <<>>
    /\ dirs0' = dirs /\ files0' = files
    /\ UNCHANGED <<args, extensions, idx, downloader, fs>>

PostRequest ==
    [method |-> "POST", url |-> ApiUrl, proxy |-> Or(downloader.proxy, None),
     timeout |-> PostTimeout,
     payload |-> [filterType |-> FilterType, flags |-> QueryFlags,
                  value |-> publisher \o <<".">> \o extension_name]]

\* a status check that lets every answer through
HttpFailedNever(resp) == FALSE

\* response.status_code != 200
HttpFailed(resp) == resp.status # StatusOk

\* a decoder that takes any body for a document
UnparsableNever(resp) == FALSE

\* response.json() raises ValueError
Unparsable(resp) == resp.body.t = "invalid"

\* _download_vscode_extension, lines 36-74: the query and the decoding of its answer
query_marketplace ==
    /\ pc = "query"
    /\ requests' = Append(requests, PostRequest)
    /\ \E o \in PostOutcomes :
          LET said == IF Truthy(downloader.proxy) THEN <<"proxy", "querying">>
                      ELSE <<"querying">> IN
          IF o.raised
          THEN /\ printed' = SelfPrint(said \o <<"query_error">>)
               /\ result' = "query_error"
               /\ pc' = Return
               /\ UNCHANGED <<response, extension_data>>
          ELSE /\ response' = o
               /\ IF HttpFailed(o)
                  THEN /\ printed' = SelfPrint(said \o <<"query_failed">>)
                       /\ result' = "query_failed"
                       /\ pc' = Return
                       /\ UNCHANGED extension_data
                  ELSE IF Unparsable(o)
                  THEN /\ printed' = SelfPrint(said \o <<"parse_failed">>)
                       /\ result' = "parse_failed"
                       /\ pc' = Return
                       /\ UNCHANGED extension_data
                  ELSE /\ printed' = SelfPrint(said)
                       /\ extension_data' = o.body
                       /\ pc' = "version"
                       /\ UNCHANGED result
    /\ UNCHANGED <<args, extensions, idx, downloader, publisher, extension_name, version,
                   file_path, download_response, fs, ran, snapshot>>

\* a lookup that falls back to a fixed version when it finds none
SelectVersionOrLatest(specific_version, data) ==
    IF Truthy(specific_version) THEN Value(JStr(specific_version))
    ELSE IF LookupVersion(data).exc = "none" THEN LookupVersion(data)
    ELSE Value(JStr(<<"latest">>))

\* lines 76-95: the override if it is truthy, else the lookup
SelectVersion(specific_version, data) ==
    IF Truthy(specific_version) THEN Value(JStr(specific_version))
    ELSE LookupVersion(data)

\* what lines 76-95 come to for the downloader in use and the decoded answer
Found == SelectVersion(downloader.version, extension_data)

\* _download_vscode_extension, lines 76-98: the override, or the lookup
resolve_version ==
    /\ pc = "version"
    /\ IF Found.exc = "none"
       THEN /\ version' = FormatValue(Found.val)
            /\ pc' = "path"
            /\ UNCHANGED <<printed, result>>
       ELSE IF Found.exc = "absent" \/ Found.exc \in Caught
       THEN /\ printed' = SelfPrint(<<"not_found">>)
            /\ result' = "not_found"
            /\ pc' = Return
            /\ UNCHANGED version
       ELSE \* the exception leaves download() and every caller: a traceback
            /\ result' = Found.exc
            /\ pc' = "crashed"
            /\ UNCHANGED <<version, printed>>
    /\ UNCHANGED <<args, extensions, idx, downloader, publisher, extension_name, response,
                   extension_data, file_path, download_response, fs, requests, ran,
                   snapshot>>

\* _download_vscode_extension, lines 100-107: the directory and the path
resolve_path ==
    /\ pc = "path"
    /\ LET dir == Or(downloader.destination, DefaultDir) IN
       /\ dirs' = dirs \cup {dir}
       /\ file_path' = PathJoin(dir, VsixName(publisher, extension_name, version))
    /\ pc' = "cache"
    /\ UNCHANGED <<args, extensions, idx, downloader, publisher, extension_name, response,
                   extension_data, version, download_response, files, printed, requests,
                   result, ran, snapshot>>

\* a cache test with the flag the wrong way round
CacheHitInverted == downloader.no_cache /\ Exists(file_path)

\* a cache test that forgets the flag
CacheHitAlways == Exists(file_path)

\* not no_cache and os.path.exists(file_path)
CacheHit == ~downloader.no_cache /\ Exists(file_path)

\* _download_vscode_extension, lines 109-112
check_cache ==
    /\ pc = "cache"
    /\ IF CacheHit
       THEN /\ printed' = SelfPrint(<<"exists", "use_no_cache">>)
            /\ result' = "cache_hit"
            /\ pc' = Return
       ELSE /\ pc' = "get"
            /\ UNCHANGED <<printed, result>>
    /\ UNCHANGED <<args, extensions, idx, downloader, locals, fs, requests, ran, snapshot>>

GetRequest ==
    [method |-> "GET", url |-> DownloadUrl(publisher, extension_name, version),
     proxy |-> Or(downloader.proxy, None), timeout |-> GetTimeout,
     payload |-> [filterType |-> 0, flags |-> 0, value |-> Empty]]

\* _download_vscode_extension, lines 114-121
fetch_asset ==
    /\ pc = "get"
    /\ requests' = Append(requests, GetRequest)
    /\ \E o \in GetOutcomes :
          IF o.raised
          THEN /\ printed' = SelfPrint(<<"downloading_version", "download_error">>)
               /\ result' = "download_error"
               /\ pc' = Return
               /\ UNCHANGED download_response
          ELSE /\ printed' = SelfPrint(<<"downloading_version">>)
               /\ download_response' = o
               /\ pc' = "store"
               /\ UNCHANGED result
    /\ UNCHANGED <<args, extensions, idx, downloader, publisher, extension_name, response,
                   extension_data, version, file_path, fs, ran, snapshot>>

\* a store that does not look at the status
DownloadedAlways(resp) == TRUE

\* download_response.status_code == 200
Downloaded(resp) == resp.status = StatusOk

\* _download_vscode_extension, lines 123-130
store_asset ==
    /\ pc = "store"
    /\ IF Downloaded(download_response)
       THEN /\ files' = WriteFile(file_path, download_response.body)
            /\ printed' = SelfPrint(<<"stars", "saved", "stars">>)
            /\ result' = "saved"
       ELSE /\ printed' = SelfPrint(<<"download_failed">>)
            /\ result' = "download_failed"
            /\ UNCHANGED files
    /\ pc' = Return
    /\ UNCHANGED <<args, extensions, idx, downloader, locals, dirs, requests, ran, snapshot>>

Next ==
    \/ cli
    \/ download_plugins_from_file
    \/ next_plugin
    \/ download
    \/ query_marketplace
    \/ resolve_version
    \/ resolve_path
    \/ check_cache
    \/ fetch_asset
    \/ store_asset

Spec == Init /\ [][Next]_vars

\* the process has ended: cli() returned, or an exception ended it
Terminated == pc \in {"done", "crashed"}

\* ------------------------------------------------- vocabulary of the claims
\* download() has been called for the downloader in use, and the locals, the
\* requests and the snapshot are those of that call
Called == pc \notin {"cli", "read_file", "download"} /\ ran # <<>>
\* that call has returned (or was left by an exception)
Returned == Called /\ pc \in {"loop", "done", "crashed"}

Count(method) == Cardinality({i \in 1..Len(requests) : requests[i].method = method})

\* raw without its leading and trailing whitespace, stated without recursion:
\* what lies between the first and the last character that is no whitespace
Trimmed(raw) ==
    LET inner == {i \in 1..Len(raw) : raw[i] \notin Whitespace} IN
    IF inner = {} THEN <<>>
    ELSE SubSeq(raw, CHOOSE i \in inner : \A k \in inner : i <= k,
                     CHOOSE j \in inner : \A k \in inner : k <= j)

\* the position of the first "." of t, 0 when there is none
FirstDot(t) ==
    IF \E i \in 1..Len(t) : t[i] = "."
    THEN CHOOSE i \in 1..Len(t) : t[i] = "." /\ \A j \in 1..(i - 1) : t[j] # "."
    ELSE 0

\* the identifier the downloader in use was built with, trimmed
Ident == Trimmed(Or(downloader.extension, Empty))
IdentPublisher == SubSeq(Ident, 1, FirstDot(Ident) - 1)
IdentName == SubSeq(Ident, FirstDot(Ident) + 1, Len(Ident))
Malformed == FirstDot(Ident) = 0 \/ IdentPublisher = <<>> \/ IdentName = <<>>

TargetDir == IF Truthy(downloader.destination) THEN downloader.destination ELSE <<"extensions">>

\* the member key of a decoded object
Member(j, key) == j.v[CHOOSE i \in 1..Len(j.v) : j.v[i][1] = key][2]

\* the answer to the query carries "results": []
EmptyResults ==
    /\ response.status = 200
    /\ response.body.t = "dict"
    /\ \E i \in 1..Len(response.body.v) : response.body.v[i] = <<"results", JList(<<>>)>>

\* the metadata request was sent and failed: no answer, a status other than 200,
\* or a body that is no JSON
MetadataFailed ==
    /\ Count("POST") = 1
    /\ response.status # 200 \/ response.body.t = "invalid"

\* the download request was sent and failed: no answer, or a status other than 200
DownloadFailed == Count("GET") = 1 /\ pc # "store" /\ download_response.status # 200

\* --------------------------------------------------------------------- C1
\* C1: when download() runs with no_cache false and a file is already at the
\* computed path, no GET is sent and the files are the same after it as before.
C1_CacheHit ==
    (Called /\ file_path # None /\ ~downloader.no_cache /\ file_path \in DOMAIN files0)
        => /\ Count("GET") = 0
           /\ files = files0
           /\ pc \in {"cache", "loop", "done"}

C1_Witness ==
    /\ Returned /\ result = "cache_hit"
    /\ ~downloader.no_cache /\ file_path \in DOMAIN files0 /\ Count("POST") = 1

\* --------------------------------------------------------------------- C2
\* C2 as stated: whenever download() has run with no_cache true and a file was
\* already at the computed path, a GET was sent and the file was overwritten.
C2_AsStated ==
    (Returned /\ file_path # None /\ downloader.no_cache /\ file_path \in DOMAIN files0)
        => Count("GET") = 1 /\ result = "saved"

\* C2 amended: with no_cache true and a file already at the computed path, one
\* GET is sent; the file is overwritten with the body of the answer when the
\* answer has status 200, and keeps its content otherwise.
C2_ForcedRedownload ==
    (Returned /\ file_path # None /\ downloader.no_cache /\ file_path \in DOMAIN files0)
        => /\ Count("GET") = 1
           /\ IF download_response.status = 200
              THEN files[file_path] = download_response.body
              ELSE files = files0

C2_Witness ==
    /\ Returned /\ downloader.no_cache /\ file_path \in DOMAIN files0
    /\ download_response.status = 200
    /\ files[file_path] # files0[file_path]

\* --------------------------------------------------------------------- C3
\* C3: an identifier that, trimmed, has no ".", or nothing before its first
\* ".", or nothing after it, is rejected: no request is sent and the file
\* system is left as it was.
C3_Rejected ==
    (Called /\ Malformed)
        => /\ result = "invalid"
           /\ requests = <<>>
           /\ dirs = dirs0 /\ files = files0
           /\ Returned

C3_Witness ==
    /\ Returned /\ result = "invalid"
    /\ FirstDot(Ident) = 0 /\ Ident # <<>>
    /\ files # NoFiles

\* --------------------------------------------------------------------- C4
\* C4: when the metadata POST fails in transport, answers with a status other
\* than 200 or with a body that is no JSON, download() ends with no GET sent,
\* no directory created and no file written, with or without a version override.
C4_MetadataFailure ==
    (Called /\ MetadataFailed)
        => /\ Returned
           /\ Count("GET") = 0
           /\ dirs = dirs0 /\ files = files0
           /\ version = None /\ file_path = None

C4_Witness ==
    /\ Returned /\ MetadataFailed
    /\ Truthy(downloader.version)
    /\ response.status = 200 /\ response.body.t = "invalid"
    /\ TargetDir \notin dirs

\* --------------------------------------------------------------------- C5
\* C5 as stated: whenever the metadata answer (200, JSON) has "results": [],
\* no GET is sent, whatever the options of the request.
C5_AsStated == (Called /\ EmptyResults) => Count("GET") = 0

\* C5 amended: when the metadata answer (200, JSON) has "results": [] and no
\* non-empty version override was given, download() leaves by its not-found
\* return (printing "Extension not found" when printing is on) and sends no GET.
C5_NotFound ==
    (Called /\ EmptyResults /\ ~Truthy(downloader.version))
        => /\ Count("GET") = 0
           /\ pc # "version" =>
                /\ Returned /\ result = "not_found"
                /\ downloader.print => printed[Len(printed)] = "not_found"
                /\ dirs = dirs0 /\ files = files0

C5_Witness ==
    /\ Returned /\ EmptyResults /\ ~Truthy(downloader.version)
    /\ result = "not_found"
    /\ downloader.print

\* --------------------------------------------------------------------- C6
\* the lines of the list that are not blank, trimmed, in file order
RECURSIVE NonBlank(_)
NonBlank(lines) ==
    IF lines = <<>> THEN <<>>
    ELSE IF Trimmed(Head(lines)) = <<>> THEN NonBlank(Tail(lines))
    ELSE <<Trimmed(Head(lines))>> \o NonBlank(Tail(lines))

\* the same when no exception has left download()
C6_WhenNoException ==
    (pc = "done" /\ Truthy(args.file)) => ran = NonBlank(extensions)

\* C6: download_plugins_from_file calls download() once for every non-blank
\* line, in file order, whatever happened to the lines before: when the process
\* has ended, the identifiers download() was called for are the non-blank lines.
C6_EveryLine ==
    (Terminated /\ Truthy(args.file)) => ran = NonBlank(extensions)

\* --------------------------------------------------------------------- C7
\* a measure of the work left: the lines still to take, then the steps of download()
Position ==
    CASE pc = "loop" -> 1
      [] pc = "store" -> 2
      [] pc = "get" -> 3
      [] pc = "cache" -> 4
      [] pc = "path" -> 5
      [] pc = "version" -> 6
      [] pc = "query" -> 7
      [] pc = "download" -> 8
      [] OTHER -> 0
Rank ==
    CASE pc = "cli" -> 10 * (MaxLines + 3)
      [] pc = "read_file" -> 10 * (MaxLines + 2)
      [] Terminated -> 0
      [] OTHER -> 10 * (Len(extensions) + 1 - idx) + Position

\* a step of the batch loop or of download(), resolve_version apart: that step
\* has no guard but its place and an outcome for every value of Found
Step ==
    \/ next_plugin \/ query_marketplace \/ resolve_path
    \/ check_cache \/ fetch_asset \/ store_asset
CanStep == pc = "version" \/ ENABLED Step

C7_State ==
    Called =>
        /\ Count("POST") <= 1 /\ Count("GET") <= 1
        /\ (~Malformed /\ (Returned \/ pc # "query")) => Count("POST") = 1
        /\ Count("GET") = 1 =>
             /\ requests[1].method = "POST" /\ requests[2].method = "GET"
             /\ response.status = 200 /\ response.body.t # "invalid"
             /\ version # None /\ version # <<>>
        /\ Terminated \/ CanStep

\* C7: one run of download() for a valid identifier sends exactly one POST, also
\* under a version override, and at most one GET, the GET only after the POST
\* was answered 200 with JSON and a version was resolved; nothing is retried:
\* every step brings the end nearer, and a step is possible until the process
\* has ended.
C7_Requests == [](C7_State) /\ [][Rank' < Rank]_vars

C7_Witness ==
    /\ Returned /\ Truthy(downloader.version)
    /\ Count("POST") = 1 /\ Count("GET") = 1
    /\ idx > 2

\* --------------------------------------------------------------------- C8
First(j) == j.v[1]
\* results[0].extensions[0].versions[0].version of the answer to the query
ListedVersion ==
    Member(First(Member(First(Member(First(Member(response.body, "results")),
                                     "extensions")), "versions")), "version").v

\* the version of the request: the override when one (non-empty) was given
WantedVersion == IF Truthy(downloader.version) THEN downloader.version ELSE ListedVersion

WantedPath ==
    TargetDir \o <<"/">> \o IdentPublisher \o <<".">> \o IdentName \o <<"-">>
      \o WantedVersion \o <<".vsix">>

WantedUrl ==
    <<"https://">> \o IdentPublisher
      \o <<".gallery.vsassets.io/_apis/public/gallery/publisher/">> \o IdentPublisher
      \o <<"/extension/">> \o IdentName \o <<"/">> \o WantedVersion
      \o <<"/assetbyname/Microsoft.VisualStudio.Services.VSIXPackage">>

\* C8: when the GET is answered 200, the file <destination or "extensions">/
\* <publisher>.<name>-<version>.vsix holds the body of the answer, publisher and
\* name being the parts of the trimmed identifier around its first ".", version
\* the override if one was given and else the first listed version; the GET went
\* to the URL built from the same three, and no other file changed.
C8_Saved ==
    (Returned /\ Count("GET") = 1 /\ download_response.status = 200)
        => /\ WantedPath \in DOMAIN files
           /\ files[WantedPath] = download_response.body
           /\ requests[2].url = WantedUrl
           /\ TargetDir \in dirs
           /\ \A p \in DOMAIN files \ {WantedPath} : p \in DOMAIN files0 /\ files[p] = files0[p]

C8_Witness ==
    /\ Returned /\ result = "saved"
    /\ ~Truthy(downloader.version)
    /\ \E i \in 1..Len(IdentName) : IdentName[i] = "."
    /\ files0 # NoFiles

\* --------------------------------------------------------------------- C9
\* the invocation did not pass --no-print
DefaultVerbosity == args.no_print = NoPrintValue(FALSE)

\* C9 as stated: --no-print defaults to true, and without the flag no message of
\* download() is printed.
C9_AsStated ==
    /\ NoPrintValue(FALSE) = TRUE
    /\ (Called /\ DefaultVerbosity) => printed = <<>>

\* C9 amended: --no-print defaults to true, and that value is handed to the
\* downloader as its print switch, so without the flag the messages of
\* download() are printed.
C9_DefaultPrints ==
    /\ NoPrintValue(FALSE) = TRUE
    /\ (Called /\ DefaultVerbosity) =>
         /\ downloader.print
         /\ printed # <<>>
         /\ printed[1] \in {"invalid", "rule"}
         /\ (Returned /\ result = "saved") => printed[Len(printed) - 1] = "saved"

C9_Witness ==
    /\ Returned /\ DefaultVerbosity
    /\ result = "saved"
    /\ Len(printed) > 3

\* -------------------------------------------------------------------- C10
\* C10: when the GET fails in transport or is answered with a status other
\* than 200, no file is created or changed; the target directory exists all
\* the same, as it does from the moment a version is resolved and the path
\* computed, a cache hit included.
C10_FailedDownload ==
    Called =>
        /\ DownloadFailed =>
             /\ files = files0
             /\ TargetDir \in dirs
             /\ Returned /\ result \in {"download_error", "download_failed"}
        /\ (version # None /\ pc # "path") => TargetDir \in dirs
        /\ result = "cache_hit" => TargetDir \in dirs

C10_Witness ==
    /\ Returned /\ DownloadFailed
    /\ download_response.status = 404
    /\ downloader.no_cache /\ file_path \in DOMAIN files0
    /\ files[file_path] = files0[file_path]

====
